---- MODULE Spec2Model ----
(***************************************************************************)
(* Model of the Canadian-banks stock data notebooks:                       *)
(*   - the download loop and the save loop (historical prices),            *)
(*   - scrape_financial_data (statements and dividends),                   *)
(*   - the CSV normalisation (read_csv(skiprows=2) / iloc[2:] + rename),   *)
(*   - the row-by-row insert cell writing to the stock_prices table.       *)
(***************************************************************************)
EXTENDS Integers, Sequences, FiniteSets, TLC

\* ------------------------------------------------------------------------
\* Bounds
\* ------------------------------------------------------------------------
\* Largest number of daily bars the provider returns for one ticker.
MaxBars == 2
\* Largest number of leading header-artifact lines of a raw CSV table.
MaxArtifacts == 3
\* Largest number of times the insert cell is executed.
MaxRuns == 2
\* Largest number of rows in one response of the history endpoint.
MaxHist == 2

\* ------------------------------------------------------------------------
\* Ticker catalogs
\* ------------------------------------------------------------------------
\* bank_tickers of the download / scrape cells: insertion-ordered dict.
bank_tickers ==
    << <<"TD", "TD.TO">>, <<"BMO", "BMO.TO">>, <<"RBC", "RY.TO">>,
       <<"CIBC", "CM.TO">>, <<"Scotiabank", "BNS.TO">> >>

\* Variant of the insert cell's catalog that keeps the five banks of the
\* download cell.
bank_tickers_all ==
    << <<"TD", "TD.TO">>, <<"BMO", "BMO.TO">>, <<"RBC", "RY.TO">>,
       <<"CIBC", "CM.TO">>, <<"Scotiabank", "BNS.TO">> >>

\* bank_tickers as rebound by the insert cell.
bank_tickers_insert ==
    << <<"TD", "TD.TO">>, <<"Scotiabank", "BNS.TO">>, <<"RBC", "RY.TO">> >>

Banks == {bank_tickers[i][1] : i \in 1..Len(bank_tickers)}
Symbols == {bank_tickers[i][2] : i \in 1..Len(bank_tickers)}
InsertBanks == {bank_tickers_insert[i][1] : i \in 1..Len(bank_tickers_insert)}

SymbolOf(bank) ==
    LET i == CHOOSE j \in 1..Len(bank_tickers) : bank_tickers[j][1] = bank
    IN bank_tickers[i][2]

\* ------------------------------------------------------------------------
\* Provider data: the text of the cells of daily bars
\* ------------------------------------------------------------------------
DateTexts  == <<"2020-01-02", "2020-01-03", "2020-01-06", "2020-01-07">>
CloseTexts == <<"57.94", "57.89", "57.90", "57.84">>
HighTexts  == <<"57.99", "57.95", "57.98", "58.17">>
LowTexts   == <<"57.56", "57.54", "57.58", "57.78">>
OpenTexts  == <<"57.78", "57.67", "57.61", "58.01">>
VolTexts   == <<"2207900", "3472900", "8359000", "3622600">>

\* A typed cell value of a DataFrame.
Val(ty, v) == [ty |-> ty, val |-> v]
NaN == Val("nan", "")

\* A field of a CSV line: its lexical class and its text.
Tok(kind, text) == [kind |-> kind, text |-> text]
EmptyTok == Tok("empty", "")

\* One well-formed daily bar of yf.download's frame, in the frame's column
\* order Date, Close, High, Low, Open, Volume.
GoodBar(d) ==
    << Val("date", DateTexts[d]), Val("float", CloseTexts[d]),
       Val("float", HighTexts[d]), Val("float", LowTexts[d]),
       Val("float", OpenTexts[d]), Val("int", VolTexts[d]) >>

\* A bar whose Close is missing at the provider.
HoleBar(d) == [GoodBar(d) EXCEPT ![2] = NaN]

\* DataFrame.to_csv of one cell.
CellToCsv(v) ==
    IF v.ty = "nan" THEN EmptyTok ELSE Tok(v.ty, v.val)

\* The three header lines DataFrame.to_csv writes for yf.download's frame
\* (column level "Price", column level "Ticker", index name "Date").
PriceLine == << Tok("label", "Price"), Tok("label", "Close"),
                Tok("label", "High"), Tok("label", "Low"),
                Tok("label", "Open"), Tok("label", "Volume") >>
TickerLine(symbol) ==
    << Tok("label", "Ticker"), Tok("sym", symbol), Tok("sym", symbol),
       Tok("sym", symbol), Tok("sym", symbol), Tok("sym", symbol) >>
DateLine == << Tok("label", "Date"), EmptyTok, EmptyTok, EmptyTok,
               EmptyTok, EmptyTok >>

\* Variant of to_csv that writes no index-name line (a frame whose index
\* has no name): two header lines instead of three.
to_csv_flat(data) ==
    << PriceLine, TickerLine(data.symbol) >>
    \o [i \in 1..Len(data.bars) |->
           [c \in 1..6 |-> CellToCsv(data.bars[i][c])]]

\* data.to_csv(f"{bank}_historical_data.csv") of the save loop.
to_csv(data) ==
    << PriceLine, TickerLine(data.symbol), DateLine >>
    \o [i \in 1..Len(data.bars) |->
           [c \in 1..6 |-> CellToCsv(data.bars[i][c])]]

\* ------------------------------------------------------------------------
\* pd.read_csv and the rename
\* ------------------------------------------------------------------------
NumCols == 6

\* dtype inference of read_csv for column c of the data lines.
ColType(body, c) ==
    IF Len(body) > 0 /\ \A i \in 1..Len(body) : body[i][c].kind = "int"
    THEN "int64"
    ELSE IF \A i \in 1..Len(body) : body[i][c].kind \in {"int", "float", "empty"}
         THEN "float64"
         ELSE "object"

\* Variant of ConvertCell that reads every column as text (dtype=str).
ConvertCellAsText(tok, dtype) ==
    IF tok.kind = "empty" THEN NaN ELSE Val("str", tok.text)

\* Conversion of one field under the inferred dtype of its column.
ConvertCell(tok, dtype) ==
    IF tok.kind = "empty" THEN NaN
    ELSE IF dtype = "int64" THEN Val("int", tok.text)
    ELSE IF dtype = "float64" THEN Val("float", tok.text)
    ELSE Val("str", tok.text)

\* The number of leading lines the insert cell skips: read_csv(skiprows=2).
SkipRows == 2

\* Variant of read_csv that takes no header line (header=None).
read_csv_noheader(file, n) ==
    LET rest == SubSeq(file, n + 1, Len(file))
    IN IF Len(rest) = 0
       THEN [error |-> "EmptyDataError", rows |-> << >>]
       ELSE [error |-> "",
             rows |-> [j \in 1..Len(rest) |->
                         [c \in 1..NumCols |->
                            ConvertCell(rest[j][c], ColType(rest, c))]]]

\* Variant of read_csv that leaves out the lines with an empty field.
read_csv_dropna(file, n) ==
    LET rest == SubSeq(file, n + 1, Len(file))
        body == SelectSeq(Tail(rest),
                          LAMBDA ln : \A c \in 1..NumCols : ln[c].kind # "empty")
    IN IF Len(rest) = 0
       THEN [error |-> "EmptyDataError", rows |-> << >>]
       ELSE [error |-> "",
             rows |-> [j \in 1..Len(body) |->
                         [c \in 1..NumCols |->
                            ConvertCell(body[j][c], ColType(body, c))]]]

\* pd.read_csv(file_path, skiprows=n): the first remaining line is the
\* header, the others are data; no remaining line raises EmptyDataError.
read_csv(file, n) ==
    LET rest == SubSeq(file, n + 1, Len(file))
    IN IF Len(rest) = 0
       THEN [error |-> "EmptyDataError", rows |-> << >>]
       ELSE LET body == Tail(rest)
            IN [error |-> "",
                rows |-> [i \in 1..Len(body) |->
                            [c \in 1..NumCols |->
                               ConvertCell(body[i][c], ColType(body, c))]]]

\* Variant of Rename that names the columns in the order open, high, low,
\* close (["date","open_price","high_price","low_price","close_price",
\* "volume"]).
RenameOpenFirst(r) ==
    [date |-> r[1], open_price |-> r[2], high_price |-> r[3],
     low_price |-> r[4], close_price |-> r[5], volume |-> r[6]]

\* df.columns = ["date","close_price","high_price","low_price","open_price",
\* "volume"]: positional rename.
Rename(r) ==
    [date |-> r[1], close_price |-> r[2], high_price |-> r[3],
     low_price |-> r[4], open_price |-> r[5], volume |-> r[6]]

RenameAll(rows) == [i \in 1..Len(rows) |-> Rename(rows[i])]

\* Variant of iloc2 that drops one row only.
iloc1(rows) == SubSeq(rows, 2, Len(rows))

\* td_data.iloc[2:].reset_index(drop=True) of the inspection cells.
iloc2(rows) == SubSeq(rows, 3, Len(rows))

\* ------------------------------------------------------------------------
\* The provider (yf.download) as the pipeline sees it
\* ------------------------------------------------------------------------
\* n well-formed bars on consecutive trading days.
GoodBars(n) == [d \in 1..n |-> GoodBar(d)]

\* n bars, the last of which misses its Close.
HoleBars(n) == [d \in 1..n |-> IF d = n THEN HoleBar(d) ELSE GoodBar(d)]

\* What one call of yf.download can do: raise, or return a frame of at most
\* MaxBars bars (no bar at all when the provider has nothing for the window).
ProviderOutcomes ==
    {[raises |-> TRUE, bars |-> << >>]}
    \cup {[raises |-> FALSE, bars |-> GoodBars(n)] : n \in 0..MaxBars}
    \cup {[raises |-> FALSE, bars |-> HoleBars(MaxBars)]}

\* The outcomes modelled for the banks that are downloaded and saved but
\* are not in the insert cell's catalog: an exception or a one-bar frame.
FetchOnlyOutcomes ==
    {[raises |-> TRUE, bars |-> << >>], [raises |-> FALSE, bars |-> GoodBars(1)]}

\* The provider as a whole: an outcome for each bank's symbol.
Feeds ==
    {f \in [Banks -> ProviderOutcomes] :
        \A b \in Banks \ InsertBanks : f[b] \in FetchOnlyOutcomes}

\* ------------------------------------------------------------------------
\* State
\* ------------------------------------------------------------------------
VARIABLES
    pc,               \* position of the notebook run
    idx,              \* index of the running for loop over a catalog
    feed,             \* what the provider answers for each bank
    historical_data,  \* dict bank -> frame, in insertion order
    files,            \* {bank}_historical_data.csv on disk
    conn,             \* state of the psycopg2 connection of the insert cell
    cursor,           \* state of its cursor
    df,               \* frame read from the current CSV file, renamed
    rownum,           \* index of the row the insert loop is at
    pending,          \* rows executed in the open transaction
    stock_prices,     \* committed rows of the stock_prices table
    uniqueKey,        \* the table has a UNIQUE (stock_ticker, date) constraint
    printed,          \* lines printed by the insert cell
    runs,             \* executions of the insert cell so far
    started,          \* banks whose iteration of the insert loop began, last run
    td_data,          \* frame of the inspection cells
    income_statement, \* scrape_financial_data: the fetched income statement
    balance_sheet,    \* ... balance sheet
    cash_flow,        \* ... cash flow
    dividends,        \* ... dividends frame (history, filtered, projected)
    history,          \* what stock.history(period="max") returned
    written,          \* files written by scrape_financial_data
    scrape_log        \* lines printed by scrape_financial_data

scrapeVars == << income_statement, balance_sheet, cash_flow, dividends,
                 history, written, scrape_log >>

vars == << pc, idx, feed, historical_data, files, conn, cursor, df, rownum, pending,
           stock_prices, uniqueKey, printed, runs, started, td_data,
           scrapeVars >>

NoFile == [exists |-> FALSE, lines |-> << >>]

\* Variant of DbRow that hands the values over in the order of the frame's
\* columns (date, close, high, low, open, volume) to the columns of
\* insert_query (date, open, high, low, close, volume).
DbRowFrameOrder(ticker, row) ==
    [stock_ticker |-> ticker, date |-> row.date,
     open_price |-> row.close_price, high_price |-> row.high_price,
     low_price |-> row.low_price, close_price |-> row.open_price,
     volume |-> row.volume]

\* The tuple handed to cursor.execute(insert_query, ...) for one row, as the
\* columns of insert_query.
DbRow(ticker, row) ==
    [stock_ticker |-> ticker, date |-> row.date,
     open_price |-> row.open_price, high_price |-> row.high_price,
     low_price |-> row.low_price, close_price |-> row.close_price,
     volume |-> row.volume]

\* Variant of KeyExists that looks only at the rows of the open transaction.
KeyExistsInTransaction(rec) ==
    \E k \in 1..Len(pending) :
        /\ pending[k].stock_ticker = rec.stock_ticker
        /\ pending[k].date = rec.date

\* A row with the key of rec is already in the table or in the transaction.
KeyExists(rec) ==
    \E k \in 1..Len(stock_prices \o pending) :
        /\ (stock_prices \o pending)[k].stock_ticker = rec.stock_ticker
        /\ (stock_prices \o pending)[k].date = rec.date

\* print("Error inserting data:", e) and print(f"Data inserted successfully
\* for {bank} ({ticker})").
ErrorLine(e) == [kind |-> "error", text |-> e]
OkLine(bank) == [kind |-> "ok", text |-> bank]

\* No frame of a statement fetched yet.
NoFrame == [fetched |-> FALSE, rows |-> << >>]

\* No response of the history endpoint yet.
NoHistory == [fetched |-> FALSE, has_dividends |-> FALSE, rows |-> << >>]

\* scrape_financial_data has not run.
ScrapeIdle ==
    /\ income_statement = NoFrame
    /\ balance_sheet = NoFrame
    /\ cash_flow = NoFrame
    /\ dividends = NoFrame
    /\ history = NoHistory
    /\ written = {}
    /\ scrape_log = << >>

Init ==
    /\ pc = "download"
    /\ idx = 1
    /\ feed \in Feeds
    /\ historical_data = << >>
    /\ files = [b \in Banks |-> NoFile]
    /\ conn = "unset"
    /\ cursor = "unset"
    /\ df = << >>
    /\ rownum = 1
    /\ pending = << >>
    /\ stock_prices = << >>
    /\ uniqueKey \in BOOLEAN
    /\ printed = << >>
    /\ runs = 0
    /\ started = {}
    /\ td_data = << >>
    /\ ScrapeIdle

\* ------------------------------------------------------------------------
\* Step 2: the download loop.  yf.download is not guarded: an exception
\* ends the cell, and the notebook run either stops there or goes on with
\* the next cell.
\* ------------------------------------------------------------------------
DownloadStep ==
    /\ pc = "download"
    /\ idx <= Len(bank_tickers)
    /\ LET bank == bank_tickers[idx][1]
           ticker == bank_tickers[idx][2]
       IN IF feed[bank].raises
          THEN /\ pc' \in {"halted", "save"}
               /\ idx' = 1
               /\ UNCHANGED historical_data
          ELSE /\ historical_data' =
                    Append(historical_data,
                           << bank, [symbol |-> ticker, bars |-> feed[bank].bars] >>)
               /\ idx' = idx + 1
               /\ UNCHANGED pc
    /\ UNCHANGED << feed, files, conn, cursor, df, rownum, pending,
                    stock_prices, uniqueKey, printed, runs, started >>
    /\ UNCHANGED << td_data, scrapeVars >>

DownloadDone ==
    /\ pc = "download"
    /\ idx > Len(bank_tickers)
    /\ pc' = "save"
    /\ idx' = 1
    /\ UNCHANGED << feed, historical_data, files, conn, cursor, df, rownum,
                    pending, stock_prices, uniqueKey, printed, runs, started >>
    /\ UNCHANGED << td_data, scrapeVars >>

\* ------------------------------------------------------------------------
\* Step 3: the save loop over historical_data.items().
\* ------------------------------------------------------------------------
SaveStep ==
    /\ pc = "save"
    /\ idx <= Len(historical_data)
    /\ LET bank == historical_data[idx][1]
           data == historical_data[idx][2]
       IN files' = [files EXCEPT ![bank] = [exists |-> TRUE, lines |-> to_csv(data)]]
    /\ idx' = idx + 1
    /\ UNCHANGED << pc, feed, historical_data, conn, cursor, df, rownum,
                    pending, stock_prices, uniqueKey, printed, runs, started >>
    /\ UNCHANGED << td_data, scrapeVars >>

SaveDone ==
    /\ pc = "save"
    /\ idx > Len(historical_data)
    /\ pc' = "inspect"
    /\ idx' = 1
    /\ UNCHANGED << feed, historical_data, files, conn, cursor, df, rownum,
                    pending, stock_prices, uniqueKey, printed, runs, started >>
    /\ UNCHANGED << td_data, scrapeVars >>

\* ------------------------------------------------------------------------
\* Initial data inspection: td_data = pd.read_csv(TD file), then
\* td_data.iloc[2:].reset_index(drop=True), then the rename of the columns.
\* Nothing is guarded: a missing file ends the cell with an exception.
\* ------------------------------------------------------------------------
InspectTD ==
    /\ pc = "inspect"
    /\ LET res == read_csv(files["TD"].lines, 0)
       IN IF ~files["TD"].exists \/ res.error # ""
          THEN /\ pc' \in {"halted", "connect"}
               /\ UNCHANGED td_data
          ELSE /\ td_data' = RenameAll(iloc2(res.rows))
               /\ pc' = "connect"
    /\ UNCHANGED << idx, feed, historical_data, files, conn, cursor, df,
                    rownum, pending, stock_prices, uniqueKey, printed, runs,
                    started, scrapeVars >>

\* ------------------------------------------------------------------------
\* The insert cell: one try block around connect, the loop over the banks
\* and the two close calls; its except clause prints and ends the cell.
\* ------------------------------------------------------------------------
\* The except clause: print the error.  Nothing is rolled back or closed.
Except(e) ==
    /\ printed' = Append(printed, ErrorLine(e))
    /\ pc' = "end"

\* Variant of Connect in which a failing psycopg2.connect is printed and the
\* cell goes on into the loop over the banks.
ConnectGoesOn ==
    /\ pc = "connect"
    /\ runs' = runs + 1
    /\ started' = {}
    /\ idx' = 1
    /\ pc' = "loop"
    /\ \/ /\ conn' = "open"
          /\ cursor' = "open"
          /\ pending' = << >>
          /\ UNCHANGED printed
       \/ /\ printed' = Append(printed, ErrorLine("OperationalError"))
          /\ UNCHANGED << conn, cursor, pending >>
    /\ UNCHANGED << feed, historical_data, files, df, rownum, stock_prices,
                    uniqueKey >>
    /\ UNCHANGED << td_data, scrapeVars >>

\* conn = psycopg2.connect(...); cursor = conn.cursor(): the first
\* statements of the try block.
Connect ==
    /\ pc = "connect"
    /\ runs' = runs + 1
    /\ started' = {}
    /\ \/ /\ conn' = "open"
          /\ cursor' = "open"
          /\ pending' = << >>
          /\ idx' = 1
          /\ pc' = "loop"
          /\ UNCHANGED printed
       \/ /\ Except("OperationalError")
          /\ UNCHANGED << conn, cursor, pending, idx >>
    /\ UNCHANGED << feed, historical_data, files, df, rownum, stock_prices,
                    uniqueKey >>
    /\ UNCHANGED << td_data, scrapeVars >>

\* Variant of LoopNext without the os.path.exists test: pd.read_csv raises
\* FileNotFoundError for a bank whose file is missing.
LoopNextUnguarded ==
    /\ pc = "loop"
    /\ idx <= Len(bank_tickers_insert)
    /\ LET bank == bank_tickers_insert[idx][1]
           res == read_csv(files[bank].lines, SkipRows)
       IN /\ started' = started \cup {bank}
          /\ IF ~files[bank].exists
             THEN /\ Except("FileNotFoundError")
                  /\ UNCHANGED << idx, df, rownum >>
             ELSE IF res.error # ""
             THEN /\ Except(res.error)
                  /\ UNCHANGED << idx, df, rownum >>
             ELSE /\ df' = RenameAll(res.rows)
                  /\ rownum' = 1
                  /\ pc' = "rows"
                  /\ UNCHANGED << idx, printed >>
    /\ UNCHANGED << feed, historical_data, files, conn, cursor, pending,
                    stock_prices, uniqueKey, runs >>
    /\ UNCHANGED << td_data, scrapeVars >>

\* Variant of LoopNext that walks the banks in the order of their names
\* (for bank in sorted(bank_tickers)).
LoopNextSorted ==
    /\ pc = "loop"
    /\ idx <= Len(bank_tickers_insert)
    /\ LET bank == << "RBC", "Scotiabank", "TD" >>[idx]
           res == read_csv(files[bank].lines, SkipRows)
       IN /\ started' = started \cup {bank}
          /\ IF ~files[bank].exists
             THEN /\ idx' = idx + 1
                  /\ UNCHANGED << pc, df, rownum, printed >>
             ELSE IF res.error # ""
             THEN /\ Except(res.error)
                  /\ UNCHANGED << idx, df, rownum >>
             ELSE /\ df' = RenameAll(res.rows)
                  /\ rownum' = 1
                  /\ pc' = "rows"
                  /\ UNCHANGED << idx, printed >>
    /\ UNCHANGED << feed, historical_data, files, conn, cursor, pending,
                    stock_prices, uniqueKey, runs >>
    /\ UNCHANGED << td_data, scrapeVars >>

\* for bank, ticker in bank_tickers.items(): file_path; os.path.exists;
\* pd.read_csv(file_path, skiprows=2); the rename of the columns.
LoopNext ==
    /\ pc = "loop"
    /\ idx <= Len(bank_tickers_insert)
    /\ LET bank == bank_tickers_insert[idx][1]
           res == read_csv(files[bank].lines, SkipRows)
       IN /\ started' = started \cup {bank}
          /\ IF ~files[bank].exists
             THEN /\ idx' = idx + 1
                  /\ UNCHANGED << pc, df, rownum, printed >>
             ELSE IF res.error # ""
             THEN /\ Except(res.error)
                  /\ UNCHANGED << idx, df, rownum >>
             ELSE /\ df' = RenameAll(res.rows)
                  /\ rownum' = 1
                  /\ pc' = "rows"
                  /\ UNCHANGED << idx, printed >>
    /\ UNCHANGED << feed, historical_data, files, conn, cursor, pending,
                    stock_prices, uniqueKey, runs >>
    /\ UNCHANGED << td_data, scrapeVars >>

\* Variant of ExecuteRow on a connection in autocommit mode: every row is
\* committed as it is executed.
ExecuteRowAutocommit ==
    /\ pc = "rows"
    /\ rownum <= Len(df)
    /\ LET rec == DbRow(bank_tickers_insert[idx][2], df[rownum])
       IN \/ /\ ~(uniqueKey /\ KeyExists(rec))
             /\ stock_prices' = Append(stock_prices, rec)
             /\ rownum' = rownum + 1
             /\ UNCHANGED << pc, printed >>
          \/ /\ uniqueKey /\ KeyExists(rec)
             /\ Except("UniqueViolation")
             /\ UNCHANGED << stock_prices, rownum >>
          \/ /\ Except("DataError")
             /\ UNCHANGED << stock_prices, rownum >>
    /\ UNCHANGED << idx, feed, historical_data, files, conn, cursor, df,
                    pending, uniqueKey, runs, started >>
    /\ UNCHANGED << td_data, scrapeVars >>

\* cursor.execute(insert_query, ...) for the row at rownum.  The store
\* rejects a duplicate key when the table has the constraint, and may
\* reject any row for its values (the table's column types are not part of
\* the notebook).
ExecuteRow ==
    /\ pc = "rows"
    /\ rownum <= Len(df)
    /\ LET rec == DbRow(bank_tickers_insert[idx][2], df[rownum])
       IN \/ /\ ~(uniqueKey /\ KeyExists(rec))
             /\ pending' = Append(pending, rec)
             /\ rownum' = rownum + 1
             /\ UNCHANGED << pc, printed >>
          \/ /\ uniqueKey /\ KeyExists(rec)
             /\ Except("UniqueViolation")
             /\ UNCHANGED << pending, rownum >>
          \/ /\ Except("DataError")
             /\ UNCHANGED << pending, rownum >>
    /\ UNCHANGED << idx, feed, historical_data, files, conn, cursor, df,
                    stock_prices, uniqueKey, runs, started >>
    /\ UNCHANGED << td_data, scrapeVars >>

\* Variant of Commit that replaces the bank's stored rows by the new batch
\* (DELETE FROM stock_prices WHERE stock_ticker = ... ahead of the rows).
CommitReplacing ==
    /\ pc = "rows"
    /\ rownum > Len(df)
    /\ \/ /\ stock_prices' =
                SelectSeq(stock_prices,
                          LAMBDA rec : rec.stock_ticker
                                          # bank_tickers_insert[idx][2])
                \o pending
          /\ pending' = << >>
          /\ printed' = Append(printed, OkLine(bank_tickers_insert[idx][1]))
          /\ idx' = idx + 1
          /\ pc' = "loop"
       \/ /\ Except("OperationalError")
          /\ UNCHANGED << stock_prices, pending, idx >>
    /\ UNCHANGED << feed, historical_data, files, conn, cursor, df, rownum,
                    uniqueKey, runs, started >>
    /\ UNCHANGED << td_data, scrapeVars >>

\* Variant of Commit in which conn.commit() is not called inside the loop.
CommitNotInLoop ==
    /\ pc = "rows"
    /\ rownum > Len(df)
    /\ printed' = Append(printed, OkLine(bank_tickers_insert[idx][1]))
    /\ idx' = idx + 1
    /\ pc' = "loop"
    /\ UNCHANGED << stock_prices, pending >>
    /\ UNCHANGED << feed, historical_data, files, conn, cursor, df, rownum,
                    uniqueKey, runs, started >>
    /\ UNCHANGED << td_data, scrapeVars >>

\* conn.commit() after the rows of one bank, then the success line.
Commit ==
    /\ pc = "rows"
    /\ rownum > Len(df)
    /\ \/ /\ stock_prices' = stock_prices \o pending
          /\ pending' = << >>
          /\ printed' = Append(printed, OkLine(bank_tickers_insert[idx][1]))
          /\ idx' = idx + 1
          /\ pc' = "loop"
       \/ /\ Except("OperationalError")
          /\ UNCHANGED << stock_prices, pending, idx >>
    /\ UNCHANGED << feed, historical_data, files, conn, cursor, df, rownum,
                    uniqueKey, runs, started >>
    /\ UNCHANGED << td_data, scrapeVars >>

\* cursor.close(); conn.close() after the loop.
Close ==
    /\ pc = "loop"
    /\ idx > Len(bank_tickers_insert)
    /\ cursor' = "closed"
    /\ conn' = "closed"
    /\ pc' = "end"
    /\ UNCHANGED << idx, feed, historical_data, files, df, rownum, pending,
                    stock_prices, uniqueKey, printed, runs, started >>
    /\ UNCHANGED << td_data, scrapeVars >>

\* The insert cell is executed again.
Rerun ==
    /\ pc = "end"
    /\ runs < MaxRuns
    /\ pc' = "connect"
    /\ UNCHANGED << idx, feed, historical_data, files, conn, cursor, df,
                    rownum, pending, stock_prices, uniqueKey, printed, runs,
                    started >>
    /\ UNCHANGED << td_data, scrapeVars >>

Next ==
    \/ DownloadStep
    \/ DownloadDone
    \/ SaveStep
    \/ SaveDone
    \/ InspectTD
    \/ Connect
    \/ LoopNext
    \/ ExecuteRow
    \/ Commit
    \/ Close
    \/ Rerun

Spec == Init /\ [][Next]_vars

\* ------------------------------------------------------------------------
\* The normalisation on raw tables of any shape: the inspection cells and
\* the insert cell run on a TD file that holds the column line, k leading
\* header-artifact lines and n data lines, each data line well-formed, with
\* an empty Close or with a Close that is not a number.
\* ------------------------------------------------------------------------
CsvLine(bar) == [c \in 1..NumCols |-> CellToCsv(bar[c])]
GoodLine(d) == CsvLine(GoodBar(d))
HoleLine(d) == CsvLine(HoleBar(d))
BadLine(d) == [GoodLine(d) EXCEPT ![2] = Tok("text", "error")]

\* The j-th leading artifact line: symbol line, empty line, in turn.
ArtifactLine(j) == IF j % 2 = 1 THEN TickerLine("TD.TO") ELSE DateLine
Artifacts(k) == [j \in 1..k |-> ArtifactLine(j)]

LineKinds == {"good", "hole", "bad"}
DataLine(kind, d) ==
    IF kind = "good" THEN GoodLine(d)
    ELSE IF kind = "hole" THEN HoleLine(d) ELSE BadLine(d)

\* The raw table with k artifact lines and the data lines of the given kinds.
RawTable(k, kinds) ==
    << PriceLine >> \o Artifacts(k)
    \o [d \in 1..Len(kinds) |-> DataLine(kinds[d], d)]

KindSeqs == UNION {[1..n -> LineKinds] : n \in 0..MaxBars}

InitRaw ==
    /\ pc = "inspect"
    /\ idx = 1
    /\ feed = [b \in Banks |-> [raises |-> TRUE, bars |-> << >>]]
    /\ historical_data = << >>
    /\ \E k \in 0..MaxArtifacts : \E kinds \in KindSeqs :
          files = [b \in Banks |->
                     IF b = "TD"
                     THEN [exists |-> TRUE, lines |-> RawTable(k, kinds)]
                     ELSE NoFile]
    /\ conn = "unset"
    /\ cursor = "unset"
    /\ df = << >>
    /\ rownum = 1
    /\ pending = << >>
    /\ stock_prices = << >>
    /\ uniqueKey \in BOOLEAN
    /\ printed = << >>
    /\ runs = 0
    /\ started = {}
    /\ td_data = << >>
    /\ ScrapeIdle

NextRaw ==
    \/ InspectTD
    \/ Connect
    \/ LoopNext
    \/ ExecuteRow
    \/ Commit
    \/ Close
    \/ Rerun

SpecRaw == InitRaw /\ [][NextRaw]_vars

\* ------------------------------------------------------------------------
\* scrape_financial_data: for each bank, three statement fetches, the
\* history fetch with the filter on the symbol and the projection on the
\* dividends column, three statement files, the dividends file when the
\* frame is not empty, and the "Data saved" line.  Nothing is guarded: an
\* exception of a fetch ends the function.
\* ------------------------------------------------------------------------
\* A symbol of the shared history endpoint that is not the requested one.
OtherSymbol == "XX.TO"
DividendTexts == {"0.0", "0.74"}

\* A row of stock.history(): index (symbol, date), columns close, dividends.
HistRow(symbol, d, amount) ==
    [symbol |-> symbol, date |-> DateTexts[d], close |-> CloseTexts[d],
     dividends |-> amount]

\* The responses of stock.history(period="max") for a ticker: at most
\* MaxHist rows, of the ticker or of another symbol, with or without a
\* dividends column.
HistoryResponses(ticker) ==
    UNION {
      { [has_dividends |-> h,
         rows |-> [d \in 1..n |-> HistRow(sy[d], d, am[d])]] :
          sy \in [1..n -> {ticker, OtherSymbol}],
          am \in [1..n -> DividendTexts],
          h \in BOOLEAN }
      : n \in 0..MaxHist }

\* dividends[["dividends"]]: the index and the dividends column.
ProjectDividends(rows) ==
    [j \in 1..Len(rows) |->
        [symbol |-> rows[j].symbol, date |-> rows[j].date,
         dividends |-> rows[j].dividends]]

StartLine(bank) == [kind |-> "scraping", text |-> bank]
SavedLine(bank) == [kind |-> "saved", text |-> bank]

pipelineVars == << feed, historical_data, files, conn, cursor, df, rownum,
                   pending, stock_prices, uniqueKey, printed, runs, started,
                   td_data >>

InitScrape ==
    /\ pc = "income"
    /\ idx = 1
    /\ feed = [b \in Banks |-> [raises |-> TRUE, bars |-> << >>]]
    /\ historical_data = << >>
    /\ files = [b \in Banks |-> NoFile]
    /\ conn = "unset"
    /\ cursor = "unset"
    /\ df = << >>
    /\ rownum = 1
    /\ pending = << >>
    /\ stock_prices = << >>
    /\ uniqueKey = FALSE
    /\ printed = << >>
    /\ runs = 0
    /\ started = {}
    /\ td_data = << >>
    /\ ScrapeIdle

\* What a statement fetch returns for a ticker.
StatementFrame(ticker) == [fetched |-> TRUE, rows |-> << [symbol |-> ticker] >>]

\* print("Scraping ..."); stock = Ticker(ticker);
\* income_statement = stock.income_statement()
FetchIncome ==
    /\ pc = "income"
    /\ idx <= Len(bank_tickers)
    /\ scrape_log' = Append(scrape_log, StartLine(bank_tickers[idx][1]))
    /\ \/ /\ income_statement' = StatementFrame(bank_tickers[idx][2])
          /\ pc' = "balance"
       \/ /\ pc' = "scrape_aborted"
          /\ UNCHANGED income_statement
    /\ UNCHANGED << idx, balance_sheet, cash_flow, dividends, history,
                    written, pipelineVars >>

\* balance_sheet = stock.balance_sheet()
FetchBalance ==
    /\ pc = "balance"
    /\ \/ /\ balance_sheet' = StatementFrame(bank_tickers[idx][2])
          /\ pc' = "cash"
       \/ /\ pc' = "scrape_aborted"
          /\ UNCHANGED balance_sheet
    /\ UNCHANGED << idx, income_statement, cash_flow, dividends, history,
                    written, scrape_log, pipelineVars >>

\* cash_flow = stock.cash_flow()
FetchCashFlow ==
    /\ pc = "cash"
    /\ \/ /\ cash_flow' = StatementFrame(bank_tickers[idx][2])
          /\ pc' = "history"
       \/ /\ pc' = "scrape_aborted"
          /\ UNCHANGED cash_flow
    /\ UNCHANGED << idx, income_statement, balance_sheet, dividends,
                    history, written, scrape_log, pipelineVars >>

\* Variant of FilterSymbol that keeps the rows of every symbol.
FilterNone(rows, ticker) ==
    SelectSeq(rows, LAMBDA row : row.symbol \in {ticker, OtherSymbol})

\* dividends[dividends.index.get_level_values("symbol") == ticker]
FilterSymbol(rows, ticker) ==
    SelectSeq(rows, LAMBDA row : row.symbol = ticker)

\* dividends = stock.history(period="max"): the fetch returns a frame or
\* raises.
FetchHistory ==
    /\ pc = "history"
    /\ \/ /\ \E resp \in HistoryResponses(bank_tickers[idx][2]) :
               history' = [fetched |-> TRUE,
                           has_dividends |-> resp.has_dividends,
                           rows |-> resp.rows]
          /\ pc' = "filter"
       \/ /\ pc' = "scrape_aborted"
          /\ UNCHANGED history
    /\ UNCHANGED << idx, income_statement, balance_sheet, cash_flow,
                    dividends, written, scrape_log, pipelineVars >>

\* The filter by symbol and the projection dividends[["dividends"]], which
\* raises KeyError when the frame has no dividends column.
FilterDividends ==
    /\ pc = "filter"
    /\ IF history.has_dividends
       THEN /\ dividends' =
                 [fetched |-> TRUE,
                  rows |-> ProjectDividends(
                             FilterSymbol(history.rows, bank_tickers[idx][2]))]
            /\ pc' = "save_income"
       ELSE /\ pc' = "scrape_aborted"
            /\ UNCHANGED dividends
    /\ UNCHANGED << idx, income_statement, balance_sheet, cash_flow, history,
                    written, scrape_log, pipelineVars >>

\* pd.DataFrame(income_statement).to_csv(f"{bank}_income_statement.csv")
SaveIncome ==
    /\ pc = "save_income"
    /\ written' = written \cup {<< bank_tickers[idx][1], "income_statement" >>}
    /\ pc' = "save_balance"
    /\ UNCHANGED << idx, income_statement, balance_sheet, cash_flow,
                    dividends, history, scrape_log, pipelineVars >>

\* pd.DataFrame(balance_sheet).to_csv(f"{bank}_balance_sheet.csv")
SaveBalance ==
    /\ pc = "save_balance"
    /\ written' = written \cup {<< bank_tickers[idx][1], "balance_sheet" >>}
    /\ pc' = "save_cash"
    /\ UNCHANGED << idx, income_statement, balance_sheet, cash_flow,
                    dividends, history, scrape_log, pipelineVars >>

\* pd.DataFrame(cash_flow).to_csv(f"{bank}_cash_flow.csv")
SaveCashFlow ==
    /\ pc = "save_cash"
    /\ written' = written \cup {<< bank_tickers[idx][1], "cash_flow" >>}
    /\ pc' = "save_dividends"
    /\ UNCHANGED << idx, income_statement, balance_sheet, cash_flow,
                    dividends, history, scrape_log, pipelineVars >>

\* Variant of SaveDividends that writes the file without looking at
\* dividends.empty.
SaveDividendsAlways ==
    /\ pc = "save_dividends"
    /\ written' = written \cup {<< bank_tickers[idx][1], "dividends" >>}
    /\ scrape_log' = Append(scrape_log, SavedLine(bank_tickers[idx][1]))
    /\ idx' = idx + 1
    /\ pc' = "income"
    /\ UNCHANGED << income_statement, balance_sheet, cash_flow, dividends,
                    history, pipelineVars >>

\* if not dividends.empty: dividends.to_csv(f"{bank}_dividends.csv");
\* print("Data saved for ..."); next bank.
SaveDividends ==
    /\ pc = "save_dividends"
    /\ IF Len(dividends.rows) # 0
       THEN written' = written \cup {<< bank_tickers[idx][1], "dividends" >>}
       ELSE UNCHANGED written
    /\ scrape_log' = Append(scrape_log, SavedLine(bank_tickers[idx][1]))
    /\ idx' = idx + 1
    /\ pc' = "income"
    /\ UNCHANGED << income_statement, balance_sheet, cash_flow, dividends,
                    history, pipelineVars >>

\* The loop over bank_tickers.items() is exhausted.
ScrapeDone ==
    /\ pc = "income"
    /\ idx > Len(bank_tickers)
    /\ pc' = "scrape_done"
    /\ UNCHANGED << idx, scrapeVars, pipelineVars >>

NextScrape ==
    \/ FetchIncome
    \/ FetchBalance
    \/ FetchCashFlow
    \/ FetchHistory
    \/ FilterDividends
    \/ SaveIncome
    \/ SaveBalance
    \/ SaveCashFlow
    \/ SaveDividends
    \/ ScrapeDone

SpecScrape == InitScrape /\ [][NextScrape]_vars

\* ------------------------------------------------------------------------
\* The notebook run on a provider that has four daily bars for TD.TO and
\* nothing for the other symbols (an empty frame, or an exception): the
\* TD file then holds the column line, the two header rows under it and
\* four bars.
\* ------------------------------------------------------------------------
NothingOutcomes ==
    {[raises |-> TRUE, bars |-> << >>], [raises |-> FALSE, bars |-> << >>]}

InitE2E ==
    /\ pc = "download"
    /\ idx = 1
    /\ feed \in {f \in [Banks -> NothingOutcomes \cup
                                  {[raises |-> FALSE, bars |-> GoodBars(4)]}] :
                    /\ Len(f["TD"].bars) = 4
                    /\ \A b \in Banks \ {"TD"} : f[b] \in NothingOutcomes}
    /\ historical_data = << >>
    /\ files = [b \in Banks |-> NoFile]
    /\ conn = "unset"
    /\ cursor = "unset"
    /\ df = << >>
    /\ rownum = 1
    /\ pending = << >>
    /\ stock_prices = << >>
    /\ uniqueKey \in BOOLEAN
    /\ printed = << >>
    /\ runs = 0
    /\ started = {}
    /\ td_data = << >>
    /\ ScrapeIdle

SpecE2E == InitE2E /\ [][Next]_vars

\* ------------------------------------------------------------------------
\* The three loops over the banks together: the notebook run on a provider
\* that raises or returns one bar for each bank, and the statement scraper.
\* ------------------------------------------------------------------------
OrderOutcomes ==
    {[raises |-> TRUE, bars |-> << >>], [raises |-> FALSE, bars |-> GoodBars(1)]}

InitOrder ==
    \/ InitScrape
    \/ /\ pc = "download"
       /\ idx = 1
       /\ feed \in [Banks -> OrderOutcomes]
       /\ historical_data = << >>
       /\ files = [b \in Banks |-> NoFile]
       /\ conn = "unset"
       /\ cursor = "unset"
       /\ df = << >>
       /\ rownum = 1
       /\ pending = << >>
       /\ stock_prices = << >>
       /\ uniqueKey \in BOOLEAN
       /\ printed = << >>
       /\ runs = 0
       /\ started = {}
       /\ td_data = << >>
       /\ ScrapeIdle

NextOrder ==
    \/ DownloadStep
    \/ DownloadDone
    \/ SaveStep
    \/ SaveDone
    \/ InspectTD
    \/ Connect
    \/ LoopNext
    \/ ExecuteRow
    \/ Commit
    \/ Close
    \/ Rerun
    \/ FetchIncome
    \/ FetchBalance
    \/ FetchCashFlow
    \/ FetchHistory
    \/ FilterDividends
    \/ SaveIncome
    \/ SaveBalance
    \/ SaveCashFlow
    \/ SaveDividends
    \/ ScrapeDone

SpecOrder == InitOrder /\ [][NextOrder]_vars

\* ------------------------------------------------------------------------
\* Vocabulary of the properties
\* ------------------------------------------------------------------------
\* The texts of a stored row.
TextsOf(rec) ==
    [stock_ticker |-> rec.stock_ticker, date |-> rec.date.val,
     open_price |-> rec.open_price.val, high_price |-> rec.high_price.val,
     low_price |-> rec.low_price.val, close_price |-> rec.close_price.val,
     volume |-> rec.volume.val]

\* The rows the provider's bars of a bank amount to.
ExpectedOf(bank) ==
    {[stock_ticker |-> SymbolOf(bank), date |-> feed[bank].bars[d][1].val,
      open_price |-> feed[bank].bars[d][5].val,
      high_price |-> feed[bank].bars[d][3].val,
      low_price |-> feed[bank].bars[d][4].val,
      close_price |-> feed[bank].bars[d][2].val,
      volume |-> feed[bank].bars[d][6].val] : d \in 1..Len(feed[bank].bars)}

StoredIdx(bank) ==
    {k \in 1..Len(stock_prices) : stock_prices[k].stock_ticker = SymbolOf(bank)}
StoredOf(bank) == {TextsOf(stock_prices[k]) : k \in StoredIdx(bank)}

NoErrorPrinted == \A k \in 1..Len(printed) : printed[k].kind # "error"
LastError ==
    IF Len(printed) > 0 /\ printed[Len(printed)].kind = "error"
    THEN printed[Len(printed)].text ELSE ""

\* The rows the insert cell executes for the k-th bank of its catalog.
BatchOf(k) ==
    LET bank == bank_tickers_insert[k][1]
        res == read_csv(files[bank].lines, SkipRows)
    IN IF files[bank].exists
       THEN [j \in 1..Len(res.rows) |->
               DbRow(bank_tickers_insert[k][2], Rename(res.rows[j]))]
       ELSE << >>

RECURSIVE BatchesUpTo(_)
BatchesUpTo(n) == IF n = 0 THEN << >> ELSE BatchesUpTo(n - 1) \o BatchOf(n)

\* The table after one application of every batch to an empty table.
OnceStore == BatchesUpTo(Len(bank_tickers_insert))

\* ------------------------------------------------------------------------
\* Properties
\* ------------------------------------------------------------------------

\* C1 (as stated): when the fetch of exactly one ticker T fails and nothing
\* else goes wrong, at the end of the run the store holds the complete and
\* correct price rows of every other ticker of the catalog.
C1_FaultIsolation ==
    \A T \in Banks :
        ( /\ pc \in {"halted", "end"}
          /\ runs <= 1
          /\ feed[T].raises
          /\ \A B \in Banks \ {T} : ~feed[B].raises
          /\ NoErrorPrinted )
        => \A B \in Banks \ {T} :
              /\ StoredOf(B) = ExpectedOf(B)
              /\ Cardinality(StoredIdx(B)) = Len(feed[B].bars)

\* C2 (as stated): a failure in a stage of one ticker does not end the run:
\* once the insert loop has begun, every ticker of its catalog has had its
\* iteration started by the time the cell ends.
C2_ProceedsToNextTicker ==
    (pc = "end" /\ started # {}) => started = InsertBanks

\* C3 (as stated): after the identical batches were persisted a second time
\* (the store itself accepting values and connections), the table holds
\* exactly the rows of one application and no error was raised.
C3_Idempotence ==
    ( /\ pc = "end"
      /\ runs = 2
      /\ \A k \in 1..Len(printed) :
            printed[k].text \notin {"DataError", "OperationalError"} )
    => (stock_prices = OnceStore /\ NoErrorPrinted)

\* C4: when a write fails in the middle of ticker A's batch (an execute or
\* the commit raises), the committed table is the same before and after the
\* failure, the rows left in the failed transaction are rows of A only, and
\* after the failure they never reach the committed table.
C4_TxnIsolation ==
    [][ /\ (pc = "rows" /\ pc' = "end")
           => /\ stock_prices' = stock_prices
              /\ \A k \in 1..Len(pending') :
                    pending'[k].stock_ticker = bank_tickers_insert[idx][2]
        /\ (pc = "end" /\ LastError # "")
           => /\ stock_prices' = stock_prices
              /\ pending' = pending
        /\ (pc = "connect" /\ pending # << >>)
           => /\ stock_prices' = stock_prices
              /\ pending' \in {pending, << >>} ]_vars

\* C4 witness: a batch has failed with rows in flight while another
\* ticker's rows are committed.
C4_Witness ==
    /\ pc = "end"
    /\ LastError \in {"DataError", "OperationalError"}
    /\ pending # << >>
    /\ \E k \in 1..Len(stock_prices) :
          stock_prices[k].stock_ticker # pending[1].stock_ticker

\* C5 (as stated): when the store rejects one row of a batch, every other
\* row of that batch is still written and committed.
C5_RowIsolation ==
    (pc = "end" /\ LastError \in {"DataError", "UniqueViolation"})
    => \A k \in (1..Len(df)) \ {rownum} :
          \E m \in 1..Len(stock_prices) :
             stock_prices[m] = DbRow(bank_tickers_insert[idx][2], df[k])

\* ------------------------------------------------------------------------
\* Properties of the normalisation
\* ------------------------------------------------------------------------
RawLines == files["TD"].lines

\* The texts of a normalised row and of a line of the file, by canonical
\* column name.
RowTexts(row) ==
    [date |-> row.date.val, close_price |-> row.close_price.val,
     high_price |-> row.high_price.val, low_price |-> row.low_price.val,
     open_price |-> row.open_price.val, volume |-> row.volume.val]
LineTexts(ln) ==
    [date |-> ln[1].text, close_price |-> ln[2].text,
     high_price |-> ln[3].text, low_price |-> ln[4].text,
     open_price |-> ln[5].text, volume |-> ln[6].text]

\* The d-th well-formed bar in canonical form.
CanonicalTexts(d) ==
    [date |-> DateTexts[d], close_price |-> CloseTexts[d],
     high_price |-> HighTexts[d], low_price |-> LowTexts[d],
     open_price |-> OpenTexts[d], volume |-> VolTexts[d]]

AllGood(n) == [d \in 1..n |-> "good"]

\* A line all of whose fields can be coerced to the canonical types.
WellFormed(ln) ==
    /\ ln[1].kind = "date"
    /\ \A c \in 2..5 : ln[c].kind \in {"float", "int"}
    /\ ln[6].kind = "int"

\* The file has the column line, a repeated-symbol line, an empty line and
\* data lines after them.
TwoArtifacts(lines) ==
    /\ Len(lines) >= 3
    /\ lines[2] = TickerLine("TD.TO")
    /\ lines[3] = DateLine
    /\ \A j \in 4..Len(lines) : lines[j][1].kind = "date"

\* The frame of the insert cell has been read from the TD file / the
\* inspection cells have run.
DfRead == pc = "rows"
TdRead == pc # "inspect"

\* C6: a raw table whose first two rows are a repeated-symbol row and an
\* empty row, followed by n well-formed rows, normalises (in the insert cell
\* and in the inspection cells) to exactly those n rows under the canonical
\* column names, the insert cell's prices being floats and its volumes
\* integers, and no row is dropped or refused.
C6_HeaderStripping ==
    \A n \in 0..MaxBars :
        RawLines = RawTable(2, AllGood(n))
        => /\ LastError # "EmptyDataError"
           /\ DfRead =>
                /\ Len(df) = n
                /\ \A d \in 1..n :
                      /\ RowTexts(df[d]) = CanonicalTexts(d)
                      /\ df[d].close_price.ty = "float"
                      /\ df[d].high_price.ty = "float"
                      /\ df[d].low_price.ty = "float"
                      /\ df[d].open_price.ty = "float"
                      /\ df[d].volume.ty = "int"
           /\ TdRead =>
                /\ Len(td_data) = n
                /\ \A d \in 1..n : RowTexts(td_data[d]) = CanonicalTexts(d)

\* C6 witness: both normalisations have run on a two-artifact table with
\* at least one well-formed row.
C6_Witness ==
    /\ DfRead
    /\ \E n \in 1..MaxBars : RawLines = RawTable(2, AllGood(n))
    /\ Len(df) >= 1
    /\ Len(td_data) = Len(df)

\* C7 (as stated): whatever the number k of leading artifact rows, the
\* normalisation discards exactly those k rows and keeps every well-formed
\* row.
C7_StructuralDetection ==
    \A k \in 0..MaxArtifacts : \A n \in 0..MaxBars :
        RawLines = RawTable(k, AllGood(n))
        => /\ LastError # "EmptyDataError"
           /\ DfRead =>
                /\ Len(df) = n
                /\ \A d \in 1..n : RowTexts(df[d]) = CanonicalTexts(d)
           /\ TdRead =>
                /\ Len(td_data) = n
                /\ \A d \in 1..n : RowTexts(td_data[d]) = CanonicalTexts(d)

\* C7 (amended): the artifacts are removed by a fixed count.  Both
\* normalisations discard exactly the first three lines of the file (the
\* column line and the two lines after it) whatever they hold and keep every
\* later line in order; the insert cell raises EmptyDataError exactly on a
\* file of fewer than three lines.
C7_FixedCount ==
    /\ DfRead =>
         /\ Len(RawLines) >= 3
         /\ Len(df) = Len(RawLines) - 3
         /\ \A j \in 1..Len(df) : RowTexts(df[j]) = LineTexts(RawLines[j + 3])
    /\ TdRead =>
         /\ Len(td_data) = (IF Len(RawLines) >= 3 THEN Len(RawLines) - 3 ELSE 0)
         /\ \A j \in 1..Len(td_data) :
               RowTexts(td_data[j]) = LineTexts(RawLines[j + 3])
    /\ LastError = "EmptyDataError" => Len(RawLines) < 3
    /\ (Len(RawLines) < 3 /\ "TD" \in started) => LastError = "EmptyDataError"

\* C7 witness: a table with three artifact lines has been normalised and
\* its third artifact line is the first row of the frame.
C7_Witness ==
    /\ DfRead
    /\ \E n \in 0..MaxBars : RawLines = RawTable(3, AllGood(n))
    /\ Len(df) >= 1
    /\ df[1].date.val = "Ticker"
    /\ td_data[1].date.val = "Ticker"

\* C9 (as stated): a row that fails coercion is left out of the normalised
\* output and counted, so the output holds no row of a malformed line and
\* output rows plus malformed lines make up the non-artifact lines.
C9_RejectsBadRows ==
    (DfRead /\ TwoArtifacts(RawLines))
    => /\ \A j \in 4..Len(RawLines) :
             ~WellFormed(RawLines[j])
             => \A m \in 1..Len(df) : df[m].date.val # RawLines[j][1].text
       /\ Len(df) + Cardinality({j \in 4..Len(RawLines) : ~WellFormed(RawLines[j])})
             = Len(RawLines) - 3

\* C9 (amended): no row is rejected.  A row whose Close cannot be coerced
\* stays in the normalised output at its place, the field being NaN (empty)
\* or the text as read, and the output row count equals the number of
\* non-artifact input rows (nothing is counted as rejected).
C9_KeepsBadRows ==
    (DfRead /\ TwoArtifacts(RawLines))
    => /\ Len(df) = Len(RawLines) - 3
       /\ \A j \in 4..Len(RawLines) :
             ~WellFormed(RawLines[j])
             => /\ df[j - 3].date.val = RawLines[j][1].text
                /\ df[j - 3].close_price.ty \in {"nan", "str"}
                /\ df[j - 3].close_price.val = RawLines[j][2].text

\* C9 witness: a frame read from a two-artifact table holds a row with a
\* missing Close and a row after or before it.
C9_Witness ==
    /\ DfRead
    /\ TwoArtifacts(RawLines)
    /\ Len(df) >= 2
    /\ \E m \in 1..Len(df) : df[m].close_price.ty = "nan"

\* ------------------------------------------------------------------------
\* Properties of the rows handed to the store
\* ------------------------------------------------------------------------
PriceFields(rec) ==
    {rec.open_price, rec.high_price, rec.low_price, rec.close_price}

\* C8 (as stated): every row handed to the store has a calendar date,
\* numeric open/high/low/close and an integer volume.
C8_TypedRows ==
    \A k \in 1..Len(pending) :
        /\ pending[k].date.ty = "date"
        /\ \A v \in PriceFields(pending[k]) : v.ty = "float"
        /\ pending[k].volume.ty = "int"

\* C8 (amended): rows are handed to the store without type conversion.  For
\* a file written by the save loop, the date of every handed row is the text
\* of the file, each of open/high/low/close is a float or NaN where the
\* provider had no value, the volume is an integer, and every row read is
\* handed on: the rows of the current batch in the transaction are the rows
\* of the frame up to the loop's position.
C8_UnconvertedRows ==
    /\ \A k \in 1..Len(pending) :
          /\ pending[k].date.ty = "str"
          /\ \A v \in PriceFields(pending[k]) : v.ty \in {"float", "nan"}
          /\ pending[k].volume.ty = "int"
    /\ pc = "rows" =>
          /\ Len(pending) = rownum - 1
          /\ \A j \in 1..(rownum - 1) :
                pending[j] = DbRow(bank_tickers_insert[idx][2], df[j])

\* C8 witness: a row with a missing Close is in the open transaction.
C8_Witness ==
    \E k \in 1..Len(pending) : pending[k].close_price.ty = "nan"

\* ------------------------------------------------------------------------
\* Properties of scrape_financial_data
\* ------------------------------------------------------------------------
InLog(line) == \E k \in 1..Len(scrape_log) : scrape_log[k] = line

DividendsHeld ==
    pc \in {"save_income", "save_balance", "save_cash", "save_dividends"}

\* Positions of the response's rows that carry the given symbol.
RowsOfSymbol(symbol) ==
    {d \in 1..Len(history.rows) : history.rows[d].symbol = symbol}

\* C11: whatever rows of whatever symbols the history endpoint answered,
\* the dividend frame kept for the requested ticker has exactly the
\* response's rows of the ticker's provider symbol, once each and in the
\* response's order, and of their columns only the dividend amount (the
\* index symbol, date stays).
C11_DividendFiltering ==
    DividendsHeld =>
        /\ Len(dividends.rows) = Cardinality(RowsOfSymbol(bank_tickers[idx][2]))
        /\ \A j \in 1..Len(dividends.rows) :
              /\ DOMAIN dividends.rows[j] = {"symbol", "date", "dividends"}
              /\ dividends.rows[j].symbol = bank_tickers[idx][2]
              /\ \E d \in RowsOfSymbol(bank_tickers[idx][2]) :
                    /\ history.rows[d].date = dividends.rows[j].date
                    /\ history.rows[d].dividends = dividends.rows[j].dividends
                    /\ Cardinality({e \in RowsOfSymbol(bank_tickers[idx][2]) :
                                        e < d}) = j - 1

\* C11 witness: the response mixed rows of the ticker with rows of another
\* symbol, and the frame kept some rows and left others out.
C11_Witness ==
    /\ DividendsHeld
    /\ RowsOfSymbol(OtherSymbol) # {}
    /\ Len(dividends.rows) > 0
    /\ Len(dividends.rows) < Len(history.rows)

\* ------------------------------------------------------------------------
\* End to end: four bars of TD.TO
\* ------------------------------------------------------------------------
\* The insert cell ran once to its end and printed no error.
CleanSingleRun == pc = "end" /\ runs = 1 /\ NoErrorPrinted

\* The stored rows carry the given ticker text and, between them, each of
\* the four fetched dates once.
FourRowsKeyedBy(name) ==
    /\ Len(stock_prices) = 4
    /\ \A k \in 1..4 : stock_prices[k].stock_ticker = name
    /\ {stock_prices[k].date.val : k \in 1..4} = {DateTexts[d] : d \in 1..4}

\* C12 (as stated): with four valid bars for TD behind the two header
\* rows, the store holds after the run exactly four rows, one per date,
\* whose ticker field is the logical name "TD".
C12_KeyedByLogicalName == CleanSingleRun => FourRowsKeyedBy("TD")

\* C12 (amended): the store holds after the run exactly four rows, one per
\* fetched date and no date twice, whose ticker field is the provider
\* symbol "TD.TO".
C12_KeyedByProviderSymbol == CleanSingleRun => FourRowsKeyedBy("TD.TO")

\* C12 witness: a run ended cleanly with TD's success line printed and
\* four rows in the store.
C12_Witness ==
    /\ CleanSingleRun
    /\ Len(stock_prices) = 4
    /\ \E k \in 1..Len(printed) : printed[k] = OkLine("TD")

\* ------------------------------------------------------------------------
\* What the insert cell reports
\* ------------------------------------------------------------------------
\* The cell's report is what it printed: a success line per committed bank
\* and the line of the except clause, which names no bank; that line is
\* read here as the status of the bank whose iteration raised.
SuccessLines(bank) == {j \in 1..Len(printed) : printed[j] = OkLine(bank)}

FailureRecorded(k) ==
    /\ LastError # ""
    /\ k = idx
    /\ bank_tickers_insert[k][1] \in started

\* The first execution of the cell connected to the store and has ended.
FirstRunEnded == pc = "end" /\ runs = 1 /\ conn # "unset"

\* C13: when the run ends every ticker of the catalog has exactly one
\* status in the report, and a ticker is reported success only if its file
\* was there and its rows are in the store.
C13_ReportTotality ==
    FirstRunEnded =>
        \A k \in 1..Len(bank_tickers_insert) :
            LET bank == bank_tickers_insert[k][1]
            IN /\ Cardinality(SuccessLines(bank))
                    + (IF FailureRecorded(k) THEN 1 ELSE 0) = 1
               /\ SuccessLines(bank) # {}
                    => /\ files[bank].exists
                       /\ Cardinality(StoredIdx(bank)) + 3
                            = Len(files[bank].lines)

\* C14: every ticker that ends the run without data persisted is recorded
\* in what the run reports; no ticker is passed over without a record.
\* (Any error line of the run is taken as a record, whichever ticker it
\* is about.)
C14_NoSilentLoss ==
    FirstRunEnded =>
        \A k \in 1..Len(bank_tickers_insert) :
            LET bank == bank_tickers_insert[k][1]
            IN (StoredIdx(bank) = {} /\ SuccessLines(bank) = {})
                  => LastError # ""

\* C15: a store connection that cannot be opened ends the whole run of the
\* insert cell: the step that fails to connect starts no ticker and writes
\* nothing, and the loop over the tickers is only ever entered with an
\* open connection and cursor.
C15_ConnectFailureFatal ==
    [][ /\ (pc = "connect" /\ pc' = "end")
           => /\ started' = {}
              /\ stock_prices' = stock_prices
              /\ pending' = pending
        /\ (pc' \in {"loop", "rows"})
           => (conn' = "open" /\ cursor' = "open") ]_vars

\* C15 witness: a second execution of the cell failed to connect; it began
\* no ticker and the rows committed by the first execution are still the
\* content of the store.
C15_Witness ==
    /\ pc = "end"
    /\ runs = 2
    /\ started = {}
    /\ LastError = "OperationalError"
    /\ Len(stock_prices) > 0

\* The provider has no bar for the bank's symbol: yf.download returns an
\* empty frame.
NoRowsAtProvider(bank) == ~feed[bank].raises /\ Len(feed[bank].bars) = 0

\* C16: a fetch that finds no rows for a symbol is a failure of that fetch;
\* its empty table is never taken through the later stages as a
\* successful fetch, so no success is reported for such a ticker.
C16_EmptyFetchIsFailure ==
    \A bank \in Banks : NoRowsAtProvider(bank) => SuccessLines(bank) = {}

\* ------------------------------------------------------------------------
\* Stages of a ticker: fetch (download), save, read and insert
\* ------------------------------------------------------------------------
Fetched(bank) ==
    \E k \in 1..Len(historical_data) : historical_data[k][1] = bank

\* The insert cell ended an execution in which nothing failed, after a
\* download in which nothing failed.
NothingFailed ==
    /\ pc = "end"
    /\ conn # "unset"
    /\ NoErrorPrinted
    /\ \A bank \in Banks : ~feed[bank].raises

\* C17 (as stated): absent failures every ticker that was fetched gets its
\* persist stage.
C17_EveryFetchedPersisted ==
    NothingFailed =>
        \A bank \in Banks : Fetched(bank) => SuccessLines(bank) # {}

\* C17 (amended): a bank's file is only written after its fetch and its
\* rows are only persisted from its file; absent failures TD, Scotiabank
\* and RBC are fetched, saved and persisted with the rows the provider
\* gave; BMO and CIBC are fetched and saved and never get a persist stage.
C17_InsertCatalogPersisted ==
    /\ \A bank \in Banks :
          /\ files[bank].exists => Fetched(bank)
          /\ (StoredIdx(bank) # {} \/ SuccessLines(bank) # {})
                => files[bank].exists
    /\ \A bank \in {"BMO", "CIBC"} :
          /\ bank \notin started
          /\ StoredIdx(bank) = {}
          /\ SuccessLines(bank) = {}
    /\ NothingFailed =>
          /\ \A bank \in Banks : Fetched(bank) /\ files[bank].exists
          /\ \A bank \in {"TD", "Scotiabank", "RBC"} :
                /\ SuccessLines(bank) # {}
                /\ StoredOf(bank) = ExpectedOf(bank)

\* C17 witness: nothing failed, BMO's bars were fetched and saved, TD's
\* rows are in the store and none of BMO's is.
C17_Witness ==
    /\ NothingFailed
    /\ files["BMO"].exists
    /\ Len(feed["BMO"].bars) > 0
    /\ StoredIdx("TD") # {}
    /\ StoredIdx("BMO") = {}

\* ------------------------------------------------------------------------
\* Order of processing
\* ------------------------------------------------------------------------
\* The banks whose scrape began, in the order of their "Scraping" lines.
ScrapeStarts == SelectSeq(scrape_log, LAMBDA line : line.kind = "scraping")

\* The download loop and the scraper take the banks in the order of
\* bank_tickers.
FetchAndScrapeInOrder ==
    /\ \A k \in 1..Len(historical_data) :
          historical_data[k][1] = bank_tickers[k][1]
    /\ \A k \in 1..Len(ScrapeStarts) :
          ScrapeStarts[k].text = bank_tickers[k][1]

\* C18 (as stated): in the fetch loop, the scraper and the insert loop a
\* ticker is started before every ticker that comes after it in the
\* catalog (bank_tickers of the download cell).
C18_CatalogOrder ==
    /\ FetchAndScrapeInOrder
    /\ \A i \in 1..Len(bank_tickers) : \A j \in 1..Len(bank_tickers) :
          (/\ i < j
           /\ bank_tickers[i][1] \in InsertBanks
           /\ bank_tickers[j][1] \in started)
             => bank_tickers[i][1] \in started

\* C18 (amended): each loop takes the banks in the insertion order of the
\* dict it iterates: the fetch loop and the scraper in the order TD, BMO,
\* RBC, CIBC, Scotiabank, the insert loop in the order TD, Scotiabank, RBC
\* of the dict the insert cell rebinds.
C18_LoopOrder ==
    /\ FetchAndScrapeInOrder
    /\ started \in {{}, {"TD"}, {"TD", "Scotiabank"},
                    {"TD", "Scotiabank", "RBC"}}
    /\ pc \in {"loop", "rows"} =>
          started = {bank_tickers_insert[k][1] :
                       k \in 1..(IF pc = "loop" THEN idx - 1 ELSE idx)}

\* C18 witness: all five banks were fetched, with RBC before Scotiabank,
\* and the insert loop has begun Scotiabank while RBC has not begun.
C18_Witness ==
    /\ Len(historical_data) = 5
    /\ pc = "rows"
    /\ started = {"TD", "Scotiabank"}

\* ------------------------------------------------------------------------
\* Keys of the stored rows
\* ------------------------------------------------------------------------
NoDuplicateKeys ==
    \A j \in 1..Len(stock_prices) : \A k \in 1..Len(stock_prices) :
        (/\ stock_prices[j].stock_ticker = stock_prices[k].stock_ticker
         /\ stock_prices[j].date = stock_prices[k].date) => j = k

SameValue(stored, fetched) ==
    /\ stored.val = fetched.val
    /\ IF fetched.ty = "nan"
       THEN stored.ty = "nan"
       ELSE stored.ty \in {"int", "float"}

C21_NoUpdateNoDelete ==
    [][ /\ Len(stock_prices') >= Len(stock_prices)
        /\ \A k \in 1..Len(stock_prices) : stock_prices'[k] = stock_prices[k]
      ]_vars

\* C21 witness: rows were committed, the cell was executed again and
\* that execution ended in its except clause after committing more rows.
C21_Witness ==
    /\ runs = 2
    /\ pc = "end"
    /\ LastError # ""
    /\ started # {}
    /\ Len(stock_prices) > Len(OnceStore)

\* ------------------------------------------------------------------------
\* Column re-mapping
\* ------------------------------------------------------------------------
\* The position of a provider column in the file, by the label the column
\* line gives it (the index column is labelled "Price" and holds the date).
ProviderCol(label) ==
    CHOOSE c \in 1..NumCols : RawLines[1][c].text = label

\* A row under the canonical names carries the fields of the line under
\* the provider's labels.
MeaningKept(row, ln) ==
    /\ row.date.val = ln[ProviderCol("Price")].text
    /\ row.open_price.val = ln[ProviderCol("Open")].text
    /\ row.high_price.val = ln[ProviderCol("High")].text
    /\ row.low_price.val = ln[ProviderCol("Low")].text
    /\ row.close_price.val = ln[ProviderCol("Close")].text
    /\ row.volume.val = ln[ProviderCol("Volume")].text

\* The line of the file the k-th committed row was read from: every
\* execution of the cell commits the lines after the third in order.
LineOfStored(k) == RawLines[((k - 1) % (Len(RawLines) - 3)) + 4]

\* C22: for every well-formed line of a file whose columns are labelled
\* Date, Close, High, Low, Open, Volume in that order, the row handed to
\* the store and the row committed have open_price = Open, high_price =
\* High, low_price = Low, close_price = Close, volume = Volume and date =
\* Date of that line; so has the row of the inspection cells' frame.
C22_ColumnMeaning ==
    /\ \A j \in 1..Len(pending) :
          WellFormed(RawLines[j + 3]) => MeaningKept(pending[j], RawLines[j + 3])
    /\ \A k \in 1..Len(stock_prices) :
          WellFormed(LineOfStored(k)) => MeaningKept(stock_prices[k], LineOfStored(k))
    /\ \A j \in 1..Len(td_data) :
          WellFormed(RawLines[j + 3]) => MeaningKept(td_data[j], RawLines[j + 3])

\* C22 witness: a well-formed line of the file is a committed row and a
\* row of the inspection cells' frame.
C22_Witness ==
    /\ Len(stock_prices) > 0
    /\ Len(td_data) > 0
    /\ \E k \in 1..Len(stock_prices) : WellFormed(LineOfStored(k))

\* ------------------------------------------------------------------------
\* Prefix commit of the insert loop
\* ------------------------------------------------------------------------
\* What r executions of the cell can have committed to an empty table:
\* each execution the complete batches of a prefix of its catalog.
RECURSIVE PrefixStoresFrom(_, _)
PrefixStoresFrom(prefixes, r) ==
    IF r = 0 THEN {<< >>}
    ELSE {s \o prefixes[m] :
             s \in PrefixStoresFrom(prefixes, r - 1), m \in DOMAIN prefixes}

PrefixStores(r) ==
    PrefixStoresFrom([m \in 0..Len(bank_tickers_insert) |-> BatchesUpTo(m)], r)

\* The current execution of the cell ended in its except clause while it
\* was processing the bank at idx.
RaisedAtTicker == pc = "end" /\ conn = "open" /\ started # {}

\* C23: when the insert cell raises while processing its k-th ticker, what
\* that execution has committed is exactly the complete batches of the
\* tickers before k (an empty batch for a ticker without file), no row of
\* ticker k and no row of a later ticker; and in every state the table is
\* made of complete batches only.
C23_PrefixCommit ==
    /\ (runs >= 1 /\ stock_prices # << >>)
          => stock_prices \in PrefixStores(runs)
    /\ RaisedAtTicker =>
          /\ idx \in 1..Len(bank_tickers_insert)
          /\ \E s \in PrefixStores(runs - 1) :
                stock_prices = s \o BatchesUpTo(idx - 1)

\* C23 witness: the first execution raised at its second or third ticker
\* with rows of that ticker executed, after committing a non-empty batch.
C23_Witness ==
    /\ RaisedAtTicker
    /\ runs = 1
    /\ idx > 1
    /\ pending # << >>
    /\ stock_prices # << >>

\* ------------------------------------------------------------------------
\* Missing input file
\* ------------------------------------------------------------------------
\* The insert loop is at a bank whose historical-data file does not exist.
AtMissingFile ==
    /\ pc = "loop"
    /\ idx <= Len(bank_tickers_insert)
    /\ ~files[bank_tickers_insert[idx][1]].exists

\* C24: the iteration of a bank whose file does not exist executes and
\* commits nothing, prints nothing and raises nothing, and hands the loop
\* on to the next bank of the catalog (or to the close calls after the
\* last bank).
C24_MissingFileSkipped ==
    [][ AtMissingFile =>
          /\ stock_prices' = stock_prices
          /\ pending' = pending
          /\ printed' = printed
          /\ conn' = conn
          /\ pc' = "loop"
          /\ idx' = idx + 1 ]_vars

\* C24 witness: Scotiabank's file was missing, its iteration left no line
\* and no row, and RBC, the bank after it, was read and committed.
C24_Witness ==
    /\ runs = 1
    /\ ~files["Scotiabank"].exists
    /\ "Scotiabank" \in started
    /\ NoErrorPrinted
    /\ SuccessLines("RBC") # {}
    /\ StoredIdx("RBC") # {}

\* ------------------------------------------------------------------------
\* Release of the connection
\* ------------------------------------------------------------------------
\* C25: whenever an execution of the insert cell has ended, the cursor and
\* the connection it opened are closed, also when an insert or a commit
\* raised; and while the loop is still executing or committing rows the
\* connection is open (it is not closed before the last commit).
C25_ConnectionReleased ==
    /\ pc = "end" => (conn \in {"unset", "closed"}
                       /\ cursor \in {"unset", "closed"})
    /\ pc \in {"loop", "rows"} => (conn = "open" /\ cursor = "open")

\* ------------------------------------------------------------------------
\* Write order of scrape_financial_data
\* ------------------------------------------------------------------------
FileOf(kind) == << bank_tickers[idx][1], kind >>

\* C26: for each ticker a file is written only after the three statement
\* fetches and the history fetch have returned; once they have returned
\* the function goes on to write, and writes the income-statement, the
\* balance-sheet and the cash-flow file; and it writes the dividends file
\* if and only if the filtered dividend table is not empty.
C26_WriteOrder ==
    [][ /\ written' # written
           => pc \in {"save_income", "save_balance", "save_cash",
                      "save_dividends"}
        /\ pc = "filter" => pc' = "save_income"
        /\ pc = "save_income" => FileOf("income_statement") \in written'
        /\ pc = "save_balance" => FileOf("balance_sheet") \in written'
        /\ pc = "save_cash" => FileOf("cash_flow") \in written'
        /\ pc = "save_dividends"
           => (FileOf("dividends") \in written' <=> Len(dividends.rows) > 0)
      ]_vars

====
